---- MODULE Spec2Model ----
(***************************************************************************)
(* cyipopt.scipy_interface: minimize_ipopt and IpoptProblemWrapper.        *)
(*                                                                         *)
(* Vectors are sequences of integers, matrices are sequences of rows, a    *)
(* scipy coo_array is a record [shape, row, col, data] with 0-based        *)
(* coordinates as in Python.  A dict is the sequence of its (key, value)   *)
(* pairs in insertion order.  User-supplied callables are drawn from a     *)
(* small family of polynomial functions, each with its exact Jacobian and  *)
(* Hessian.  The solver's iterates are integer points; the points          *)
(* approx_fprime evaluates at are x + dx*e_j, where dx is the step it      *)
(* takes for eps = 1e-8, so a real number is kept exactly as               *)
(* c0 + c1*dx + c2*dx^2, written <<c0, c1, c2>>.                           *)
(***************************************************************************)
EXTENDS Integers, Sequences, FiniteSets, TLC

VARIABLES
    pc,        \* position inside minimize_ipopt: call, construct, options, register, solve, done, raised
    exc,       \* the exception minimize_ipopt left with ("none" while running)
    inp,       \* the caller's arguments to minimize_ipopt
    prep,      \* cl, cu, con_dims, sparse_jacs, jac_nnz_row, jac_nnz_col (lines 339-343)
    problem,   \* the IpoptProblemWrapper's fields other than the counters
    options,   \* the options dict
    nlp,       \* the options registered with cyipopt.Problem
    memo,      \* the caches of the MemoizeJac wrappers: 0 the objective's, i group i's
    nfev,      \* IpoptProblemWrapper.nfev
    njev,      \* IpoptProblemWrapper.njev
    nit,       \* IpoptProblemWrapper.nit
    ret,       \* the latest call of a wrapper method: its name, arguments, result and the user calls it made
    result     \* the OptimizeResult's counters

vars == <<pc, exc, inp, prep, problem, options, nlp, memo, nfev, njev, nit, ret, result>>

\* ------------------------------------------------------------------ bounds

MaxGroups == 2      \* constraint groups in one problem
MaxEvals == 1       \* objective (and gradient) evaluations the solver makes
MaxIter == 1        \* largest iteration count the solver reports
MaxOptVal == 2      \* option values are 1..MaxOptVal
MaxMult == 1        \* Lagrange multiplier vectors are <<c+1, c+2, ...>>, c in 0..MaxMult
MaxOpts == 3        \* entries of the caller's options dict

\* The finite-difference step of lines 100 and 352 is eps = 1e-8.  The step
\* approx_fprime takes is dx = (x + eps) - x in double precision, which for
\* 1 <= x < 4 is 45035996 * 2^-52, and it divides by dx.  1/dx is
\* 100000000.60774711: DxInvWhole + DxInvFrac / FracScale.
DxInvWhole == 100000000
DxInvFrac == 60774711
FracScale == 100000000

\* ----------------------------------------------------------- numpy helpers

RECURSIVE SumSeq(_)
SumSeq(s) == IF s = <<>> THEN 0 ELSE Head(s) + SumSeq(Tail(s))

RECURSIVE Hstack(_)
\* np.hstack of a non-empty list of 1-D arrays.
Hstack(ss) == IF ss = <<>> THEN <<>> ELSE Head(ss) \o Hstack(Tail(ss))

\* ndarray.ravel of a 2-D array: row-major flattening.
Ravel(m) == Hstack(m)

\* np.cumsum
Cumsum(s) == [i \in 1..Len(s) |-> SumSeq(SubSeq(s, 1, i))]

\* a[:-1]
ButLast(s) == IF s = <<>> THEN <<>> ELSE SubSeq(s, 1, Len(s) - 1)

\* np.split(ary, indices): the pieces ary[0:i1], ary[i1:i2], ..., ary[ik:].
NpSplit(ary, idx) ==
    LET cut == <<0>> \o idx \o <<Len(ary)>>
    IN  [j \in 1..(Len(idx) + 1) |-> SubSeq(ary, cut[j] + 1, cut[j + 1])]

\* zip of two lists stops with the shorter.
ZipLen(a, b) == IF Len(a) < Len(b) THEN Len(a) ELSE Len(b)

MatAdd(a, b) == [r \in 1..Len(a) |-> [c \in 1..Len(a[r]) |-> a[r][c] + b[r][c]]]

MatScale(k, a) == [r \in 1..Len(a) |-> [c \in 1..Len(a[r]) |-> k * a[r][c]]]

RECURSIVE TrilFrom(_, _)
\* H[np.tril_indices(n)]: rows in order, in each row the columns up to the diagonal.
TrilFrom(h, r) ==
    IF r > Len(h) THEN <<>> ELSE SubSeq(h[r], 1, r) \o TrilFrom(h, r + 1)

Tril(h) == TrilFrom(h, 1)

\* coo_array(np.ones((p, n))): every entry, in row-major order.
CooOnes(p, n) ==
    [shape |-> <<p, n>>,
     row   |-> [k \in 1..(p * n) |-> (k - 1) \div n],
     col   |-> [k \in 1..(p * n) |-> (k - 1) % n],
     data  |-> [k \in 1..(p * n) |-> 1]]

RECURSIVE VstackFrom(_, _)
\* scipy.sparse.vstack: the blocks' coordinates in block order, each block's
\* rows shifted by the number of rows above it.
VstackFrom(js, off) ==
    IF js = <<>> THEN [row |-> <<>>, col |-> <<>>]
    ELSE LET j == Head(js)
             rest == VstackFrom(Tail(js), off + j.shape[1])
         IN  [row |-> [k \in 1..Len(j.row) |-> j.row[k] + off] \o rest.row,
              col |-> j.col \o rest.col]

Vstack(js) == VstackFrom(js, 0)

\* ------------------------------------------------------ the user's functions

\* The extra positional argument a (default 1) and keyword argument k (default 0)
\* of every user function: def g(x, a=1, k=0).
ArgA(args) == IF Len(args) >= 1 THEN args[1] ELSE 1
KwK(kwargs) == IF Len(kwargs) >= 1 THEN kwargs[1] ELSE 0

\* Exact arithmetic on the reals c0 + c1*dx + c2*dx^2.  The user functions
\* are quadratic and a point has at most one coordinate off the grid, by
\* dx, so no power of dx above the second ever arises.
Real(c) == <<c, 0, 0>>

RAdd(u, v) == <<u[1] + v[1], u[2] + v[2], u[3] + v[3]>>

RMul(u, v) ==
    <<u[1] * v[1],
      u[1] * v[2] + u[2] * v[1],
      u[1] * v[3] + u[2] * v[2] + u[3] * v[1]>>

RECURSIVE RSum(_)
RSum(s) == IF s = <<>> THEN Real(0) ELSE RAdd(Head(s), RSum(Tail(s)))

\* An integer point as a point of reals, and back.
Lift(x) == [i \in 1..Len(x) |-> Real(x[i])]
Grid(X) == [i \in 1..Len(X) |-> X[i][1]]

RSumSq(X) == RSum([i \in 1..Len(X) |-> RMul(X[i], X[i])])

\* Constraint functions.  quad(x) = (sum x_i^2 + a*x_1 + k);
\* pair(x) = (x_1^2 + a + k, a*x_1*x_n).  ConValueAt is the function at a
\* point of reals, ConValue its value at an integer point.
ConValueAt(f, X, args, kwargs) ==
    LET a == Real(ArgA(args))
        k == Real(KwK(kwargs))
        n == Len(X)
    IN  IF f = "quad" THEN << RAdd(RAdd(RSumSq(X), RMul(a, X[1])), k) >>
        ELSE << RAdd(RAdd(RMul(X[1], X[1]), a), k), RMul(a, RMul(X[1], X[n])) >>

ConValue(f, x, args, kwargs) == Grid(ConValueAt(f, Lift(x), args, kwargs))

\* Their exact Jacobians as dense arrays.
ConJacDense(f, x, args, kwargs) ==
    LET a == ArgA(args)
        n == Len(x)
    IN  IF f = "quad"
        THEN << [j \in 1..n |-> 2 * x[j] + (IF j = 1 THEN a ELSE 0)] >>
        ELSE << [j \in 1..n |-> IF j = 1 THEN 2 * x[1] ELSE 0],
                [j \in 1..n |-> a * ((IF j = 1 THEN x[n] ELSE 0)
                                     + (IF j = n THEN x[1] ELSE 0))] >>

\* The structural nonzeros of the sparse evaluators, in the order the evaluator
\* stores them (last coordinate first, which is not row-major).
SparsePattern(f, n) ==
    IF f = "quad" THEN [k \in 1..n |-> <<0, n - k>>]
    ELSE IF n = 1 THEN << <<1, 0>>, <<0, 0>> >>
    ELSE << <<1, n - 1>>, <<1, 0>>, <<0, 0>> >>

ConDim(f) == IF f = "quad" THEN 1 ELSE 2

ConJacSparse(f, x, args, kwargs) ==
    LET pat == SparsePattern(f, Len(x))
        d == ConJacDense(f, x, args, kwargs)
    IN  [shape |-> <<ConDim(f), Len(x)>>,
         row   |-> [k \in 1..Len(pat) |-> pat[k][1]],
         col   |-> [k \in 1..Len(pat) |-> pat[k][2]],
         data  |-> [k \in 1..Len(pat) |-> d[pat[k][1] + 1][pat[k][2] + 1]]]

\* Their Hessian contributions hess(x, lagr, a): sum_r lagr_r * Hessian of g_r.
ConHess(f, x, lagr, args, kwargs) ==
    LET a == ArgA(args)
        n == Len(x)
    IN  IF f = "quad"
        THEN [r \in 1..n |-> [c \in 1..n |-> IF r = c THEN 2 * lagr[1] ELSE 0]]
        ELSE [r \in 1..n |-> [c \in 1..n |->
                (IF r = 1 /\ c = 1 THEN 2 * lagr[1] ELSE 0)
                + (IF r = 1 /\ c = n THEN a * lagr[2] ELSE 0)
                + (IF r = n /\ c = 1 THEN a * lagr[2] ELSE 0)]]

\* The objective f(x) = sum x_i^2 + a*x_1 + k at a point of reals, its gradient
\* and its Hessian.
ObjValueAt(X, args, kwargs) ==
    RAdd(RAdd(RSumSq(X), RMul(Real(ArgA(args)), X[1])), Real(KwK(kwargs)))

ObjGrad(x, args, kwargs) ==
    [j \in 1..Len(x) |-> 2 * x[j] + (IF j = 1 THEN ArgA(args) ELSE 0)]

ObjHess(x, args, kwargs) ==
    [r \in 1..Len(x) |-> [c \in 1..Len(x) |-> IF r = c THEN 2 ELSE 0]]

\* x + dx*e_j
Bump(x, j) == [i \in 1..Len(x) |-> IF i = j THEN <<x[i], 1, 0>> ELSE Real(x[i])]

\* The points approx_fprime evaluates f at besides x: x + dx*e_j for each j.
Perturbed(x) == [j \in 1..Len(x) |-> Bump(x, j)]

\* a/q to the nearest integer, for q > 0.
Nearest(a, q) == (2 * a + q) \div (2 * q)

\* (u - v)/dx to the nearest integer: with d = u - v it is d0/dx + d1 + d2*dx,
\* whose part below the units is d0*DxInvFrac + d2 in units of 1/FracScale.
Quotient(u, v) ==
    (u[1] - v[1]) * DxInvWhole + (u[2] - v[2])
    + Nearest((u[1] - v[1]) * DxInvFrac + (u[3] - v[3]), FracScale)

\* scipy.optimize.approx_fprime(x, f, eps, *args) for a vector-valued f: the
\* forward differences (f(x + dx*e_j) - f(x)) / dx, one row per component of
\* f.  f0 is f(x) and fp[j] is f(x + dx*e_j).  The floating-point result is
\* this one before it is rounded to the nearest integer.
ApproxFprime(f0, fp) ==
    [r \in 1..Len(f0) |-> [j \in 1..Len(fp) |-> Quotient(fp[j][r], f0[r])]]

\* ------------------------------------------------------------ dict helpers

EmptyDict == <<>>

Keys(d) == { d[i][1] : i \in 1..Len(d) }

\* key in d
Has(d, key) == key \in Keys(d)

\* d[key]
Get(d, key) == d[CHOOSE i \in 1..Len(d) : d[i][1] = key][2]

\* d[key] = v: a present key keeps its place, a new key goes last.
DictSet(d, key, v) ==
    IF Has(d, key)
    THEN [i \in 1..Len(d) |-> IF d[i][1] = key THEN <<key, v>> ELSE d[i]]
    ELSE Append(d, <<key, v>>)

\* d.pop(key)
DictPop(d, key) == SelectSeq(d, LAMBDA e : e[1] # key)

Str(name) == <<"str", name>>
Bytes(name) == <<"bytes", name>>

\* ----------------------------------------------------- the caller's inputs

Points == { <<1, 2>>, <<2, 3>>, <<3>> }

Iterates(n) == { x \in Points : Len(x) = n }

\* The starting points x0: one of each dimension.
StartPoints == { <<1, 2>>, <<3>> }

\* A constraint group (one dict of the constraints list).  jac is "none" (no
\* 'jac' key), "joint" (jac=True: fun returns (value, jacobian)), "dense" or
\* "sparse" (a callable returning an ndarray or a coo_array).
Group(f, t, j, h, a, kw) ==
    [fun |-> f, type |-> t, jac |-> j, hess |-> h, args |-> a, kwargs |-> kw]

\* The user functions with the type, args and kwargs their group declares.
QuadCon(j, h) == Group("quad", "eq", j, h, <<>>, <<>>)
PairCon(j, h) == Group("pair", "ineq", j, h, <<2>>, <<3>>)

JacModes == {"none", "joint", "dense", "sparse"}

\* Groups without a Hessian, with every kind of Jacobian: a callable jac is
\* dense for quad and sparse for pair.
JacGroups ==
    { QuadCon(j, FALSE) : j \in JacModes \ {"sparse"} }
    \cup { PairCon(j, FALSE) : j \in JacModes \ {"dense"} }

\* Groups with a dense Jacobian, with and without a Hessian.
HessGroups == { QuadCon("dense", h) : h \in BOOLEAN } \cup { PairCon("dense", h) : h \in BOOLEAN }

ListsOver(S) == UNION { [1..k -> S] : k \in 0..MaxGroups }

Input(x0, j, h, hp, a, kw, cons, tol, opts) ==
    [x0 |-> x0, jac |-> j, hess |-> h, hessp |-> hp, args |-> a, kwargs |-> kw,
     constraints |-> cons, tol |-> tol, options |-> opts]

\* Problems that differ in their constraints' Jacobians.
JacInputs ==
    { Input(x0, "callable", FALSE, FALSE, <<2>>, <<3>>, cons, "None", EmptyDict) :
        x0 \in StartPoints, cons \in ListsOver(JacGroups) }

\* Problems that differ in who supplies a Hessian.
HessInputs ==
    { Input(x0, "callable", h, FALSE, <<2>>, <<3>>, cons, "None", EmptyDict) :
        x0 \in StartPoints, h \in BOOLEAN, cons \in ListsOver(HessGroups) }

\* Unconstrained problems that differ in the objective's derivatives and kwargs.
ObjInputs ==
    { Input(<<1, 2>>, j, h, hp, <<2>>, kw, <<>>, "None", EmptyDict) :
        j \in {"none", "joint", "callable"}, h \in BOOLEAN, hp \in BOOLEAN,
        kw \in {<<>>, <<3>>} }

\* A problem with a constraint type that is neither 'eq' nor 'ineq'.
BadTypeInputs ==
    { Input(<<1, 2>>, "callable", FALSE, FALSE, <<2>>, <<3>>,
            << Group("quad", "le", "none", FALSE, <<>>, <<>>) >>, "None", EmptyDict) }

Inputs == JacInputs \cup HessInputs \cup ObjInputs \cup BadTypeInputs

\* Option dicts: aliases and native names, as str or bytes keys, in any order.
OptKeys == { Str("disp"), Str("print_level"), Bytes("print_level"),
             Str("maxiter"), Bytes("max_iter") }

OptDicts ==
    { d \in UNION { [1..n -> OptKeys \X (1..MaxOptVal)] : n \in 0..MaxOpts } :
        \A i, j \in 1..Len(d) : d[i][1] = d[j][1] => i = j }

OptionInputs ==
    { Input(<<1, 2>>, "callable", FALSE, FALSE, <<2>>, <<3>>, <<>>, tol, o) :
        tol \in {"None", "tol"}, o \in OptDicts }


\* ------------------------------------------- what a group's callables return

\* con['fun'](x, *args): the value, or for jac=True the pair (value, jacobian).
\* Only the positional args are ever passed, so the keyword k keeps its default.
UserFunValue(con, x, args) == ConValue(con.fun, x, args, <<>>)
UserFunJac(con, x, args) == ConJacDense(con.fun, x, args, <<>>)

\* con['jac'](x, *args) of a group with a callable jac.
UserJac(con, x, args) ==
    IF con.jac = "sparse" THEN ConJacSparse(con.fun, x, args, <<>>)
    ELSE ConJacDense(con.fun, x, args, <<>>)

\* ---------------------------------------------------- get_constraint_bounds

\* m of one group: len(np.atleast_1d(value at x0)).
ProbeDim(con, x0) == Len(UserFunValue(con, x0, con.args))

BadTypes(cons) == { i \in 1..Len(cons) : cons[i].type \notin {"eq", "ineq"} }

\* cl and cu; INF is the sentinel 1e19.
get_constraint_bounds(cons, x0) ==
    [cl |-> Hstack([i \in 1..Len(cons) |-> [k \in 1..ProbeDim(cons[i], x0) |-> 0]]),
     cu |-> Hstack([i \in 1..Len(cons) |->
                [k \in 1..ProbeDim(cons[i], x0) |->
                    IF cons[i].type = "eq" THEN "0" ELSE "1e19"]])]

\* ------------------------------------------------ get_constraint_dimensions

get_constraint_dimensions(cons, x0) == [i \in 1..Len(cons) |-> ProbeDim(cons[i], x0)]

\* ------------------------------------------- _get_sparse_jacobian_structure

\* The block one group contributes: its own coo_array, or ones in the shape of
\* its dense Jacobian, or ones of shape (con_val.size, x0.size).
StructureBlock(con, x0) ==
    IF con.jac = "none"
    THEN CooOnes(Len(UserFunValue(con, x0, con.args)), Len(x0))
    ELSE LET jac_val == IF con.jac = "joint" THEN UserFunJac(con, x0, con.args)
                        ELSE UserJac(con, x0, con.args)
         IN  IF con.jac = "sparse" THEN jac_val
             ELSE CooOnes(Len(jac_val), Len(jac_val[1]))

get_sparse_jacobian_structure(cons, x0) ==
    IF Len(cons) = 0
    THEN [sparse_jacs |-> <<>>, jac_nnz_row |-> <<>>, jac_nnz_col |-> <<>>]
    ELSE LET J == Vstack([i \in 1..Len(cons) |-> StructureBlock(cons[i], x0)])
         IN  [sparse_jacs |-> [i \in 1..Len(cons) |-> cons[i].jac = "sparse"],
              jac_nnz_row |-> J.row,
              jac_nnz_col |-> J.col]

\* ------------------------------------------------------------------- state

NoPrep == [cl |-> <<>>, cu |-> <<>>, con_dims |-> <<>>, sparse_jacs |-> <<>>,
           jac_nnz_row |-> <<>>, jac_nnz_col |-> <<>>]

NoCallable == [tag |-> "unbound", g |-> 0]

NoProblem ==
    [obj_hess |-> FALSE, fun |-> "unbound", jac |-> "unbound", args |-> <<>>, kwargs |-> <<>>,
     constraint_funs |-> <<>>, constraint_jacs |-> <<>>, constraint_hessians |-> <<>>,
     constraint_dims |-> <<>>, constraint_args |-> <<>>, constraint_kwargs |-> <<>>,
     constraint_jac_is_sparse |-> <<>>, constraint_jacobian_structure |-> << <<>>, <<>> >>,
     con_fun |-> NoCallable]

NoRet == [cb |-> "none", x |-> <<>>, lagrange |-> <<>>, obj_factor |-> 0, iter_count |-> 0,
          val |-> <<>>, exc |-> "none", calls |-> <<>>]

NoResult == [nfev |-> 0, njev |-> 0, nit |-> 0, returned |-> FALSE]

\* A MemoizeJac as constructed: x, _value and jac are None.  Afterwards x is the
\* point of the latest computation and args the arguments it was made with;
\* _value and jac are the user function's pair at that point with those arguments.
NoCache == [x |-> <<>>, args |-> <<>>]

InitWith(I) ==
    /\ inp \in I
    /\ pc = "call"
    /\ exc = "none"
    /\ prep = NoPrep
    /\ problem = NoProblem
    /\ options = inp.options
    /\ nlp = EmptyDict
    /\ memo = <<>>
    /\ nfev = 0
    /\ njev = 0
    /\ nit = 0
    /\ ret = NoRet
    /\ result = NoResult

Init == InitWith(Inputs)

Raise(e) ==
    /\ pc' = "raised"
    /\ exc' = e

\* --------------------------------------------------- minimize_ipopt, 337-343

\* The probes at x0.  (lb and ub of get_bounds go to the solver as they are.)

Prepare ==
    /\ pc = "call"
    /\ LET cons == inp.constraints
           x0 == inp.x0
       IN  IF BadTypes(cons) # {}
           THEN /\ Raise("ValueError")
                /\ prep' = prep
           ELSE LET b == get_constraint_bounds(cons, x0)
                    s == get_sparse_jacobian_structure(cons, x0)
                IN  /\ prep' = [cl |-> b.cl, cu |-> b.cu,
                                con_dims |-> get_constraint_dimensions(cons, x0),
                                sparse_jacs |-> s.sparse_jacs,
                                jac_nnz_row |-> s.jac_nnz_row,
                                jac_nnz_col |-> s.jac_nnz_col]
                    /\ pc' = "construct"
                    /\ exc' = exc
    /\ UNCHANGED <<inp, problem, options, nlp, memo, nfev, njev, nit, ret, result>>


\* ------------------------------------------- IpoptProblemWrapper.__init__

\* The callables one loop iteration appends for group i.  A callable is named
\* by its kind and the group whose user function it wraps: "user" is con['fun']
\* or con['jac'] itself, "memo" is MemoizeJac(con['fun']), "derivative" is that
\* MemoizeJac's derivative, and "fd" is the lambda of lines 144-145, which reads
\* the variable con_fun of __init__ when it is called.
WrapFun(con, i) == [tag |-> IF con.jac = "joint" THEN "memo" ELSE "user", g |-> i]

WrapJac(con, i) ==
    [tag |-> IF con.jac = "none" THEN "fd"
             ELSE IF con.jac = "joint" THEN "derivative" ELSE "user",
     g |-> i]

\* The check with its second half (a group has a Hessian, the objective none) left out.
MutHessMismatch(obj_hess, con) == obj_hess /\ ~con.hess

\* Lines 151-155: Hessians must come from the objective and every group, or from none.
HessMismatch(obj_hess, con) ==
    \/ obj_hess /\ ~con.hess
    \/ ~obj_hess /\ con.hess

Wrapper(in, pr) ==
    LET cons == in.constraints
        k == Len(cons)
    IN  [obj_hess |-> in.hess,
         fun |-> IF in.jac = "joint" THEN "memo" ELSE "user",
         jac |-> IF in.jac = "none" THEN "fd"
                 ELSE IF in.jac = "joint" THEN "derivative" ELSE "user",
         args |-> in.args,
         kwargs |-> in.kwargs,
         constraint_funs |-> [i \in 1..k |-> WrapFun(cons[i], i)],
         constraint_jacs |-> [i \in 1..k |-> WrapJac(cons[i], i)],
         constraint_hessians |-> [i \in 1..k |-> cons[i].hess],
         constraint_dims |-> pr.con_dims,
         constraint_args |-> [i \in 1..k |-> cons[i].args],
         constraint_kwargs |-> [i \in 1..k |-> cons[i].kwargs],
         constraint_jac_is_sparse |-> pr.sparse_jacs,
         constraint_jacobian_structure |-> <<pr.jac_nnz_row, pr.jac_nnz_col>>,
         \* the value the loop variable con_fun is left with
         con_fun |-> IF k = 0 THEN NoCallable ELSE WrapFun(cons[k], k)]

\* minimize_ipopt, 345-356
Construct ==
    /\ pc = "construct"
    /\ IF \/ inp.hessp
          \/ \E i \in 1..Len(inp.constraints) : HessMismatch(inp.hess, inp.constraints[i])
       THEN /\ Raise("NotImplementedError")
            /\ problem' = problem
            /\ memo' = memo
       ELSE /\ problem' = Wrapper(inp, prep)
            /\ memo' = [g \in 0..Len(inp.constraints) |-> NoCache]
            /\ pc' = "options"
            /\ exc' = exc
    /\ UNCHANGED <<inp, prep, options, nlp, nfev, njev, nit, ret, result>>

\* ------------------------------------------------------ option translation

RECURSIVE ConvertKeys(_, _)
\* The loop of convert_to_bytes over the keys not yet visited.  A str key's
\* value is stored under its bytes key and the str key is popped; for a bytes
\* key bytes(key, 'utf-8') raises TypeError and the entry stays.
ConvertKeys(o, keys) ==
    IF keys = <<>> THEN o
    ELSE LET key == Head(keys)
         IN  ConvertKeys(IF key[1] = "str"
                         THEN DictPop(DictSet(o, Bytes(key[2]), Get(o, key)), key)
                         ELSE o,
                         Tail(keys))

\* convert_to_bytes: the loop over list(options.keys()).
convert_to_bytes(o) == ConvertKeys(o, [i \in 1..Len(o) |-> o[i][1]])

\* replace_option without the test that newname is absent.
MutReplaceOption(o, oldname, newname) ==
    IF Has(o, oldname) THEN DictSet(DictPop(o, oldname), newname, Get(o, oldname)) ELSE o

replace_option(o, oldname, newname) ==
    IF Has(o, oldname) /\ ~Has(o, newname)
    THEN DictSet(DictPop(o, oldname), newname, Get(o, oldname))
    ELSE o

SetDefault(o, key, v) == IF ~Has(o, key) THEN DictSet(o, key, v) ELSE o

\* minimize_ipopt, 370-383
TranslatedOptions(in, o) ==
    LET o1 == convert_to_bytes(o)
        o2 == replace_option(o1, Bytes("disp"), Bytes("print_level"))
        o3 == replace_option(o2, Bytes("maxiter"), Bytes("max_iter"))
        o4 == SetDefault(o3, Bytes("print_level"), 0)
        o5 == SetDefault(o4, Bytes("tol"), IF in.tol = "None" THEN "1e-8" ELSE in.tol)
        o6 == SetDefault(o5, Bytes("mu_strategy"), "adaptive")
    IN  IF ~in.hess /\ ~in.hessp
        THEN SetDefault(o6, Bytes("hessian_approximation"), "limited-memory")
        ELSE o6

TranslateOptions ==
    /\ pc = "options"
    /\ options' = TranslatedOptions(inp, options)
    /\ pc' = "register"
    /\ UNCHANGED <<exc, inp, prep, problem, nlp, memo, nfev, njev, nit, ret, result>>

\* minimize_ipopt, 384-389: the options go to the solver one by one in the
\* dict's order.  The solver takes them all, or rejects the k-th, and then it
\* holds the k-1 before it.
Register ==
    /\ pc = "register"
    /\ \/ /\ nlp' = options
          /\ pc' = "solve"
          /\ exc' = exc
       \/ \E k \in 1..Len(options) :
            /\ nlp' = SubSeq(options, 1, k - 1)
            /\ Raise("TypeError")
    /\ UNCHANGED <<inp, prep, problem, options, memo, nfev, njev, nit, ret, result>>


\* ------------------------------------------------- the wrapper's callbacks

\* One call of a user function: which function (fn) of which owner (0 the
\* objective, i group i), on behalf of which owner's callable (by), and with
\* which arguments.
Call(fn, owner, by, args, kwargs) ==
    [fn |-> fn, owner |-> owner, by |-> by, args |-> args, kwargs |-> kwargs]

Returned(cb, x, val, calls) ==
    [NoRet EXCEPT !.cb = cb, !.x = x, !.val = val, !.calls = calls]

Threw(cb, x, e) == [NoRet EXCEPT !.cb = cb, !.x = x, !.exc = e]

\* An exception leaving a method after it made the user calls.
ThrewAfter(cb, x, e, calls) == [Threw(cb, x, e) EXCEPT !.calls = calls]

\* What a stored callable returned, the caches it left and the user calls it made.
Outcome(m, val, calls) == [memo |-> m, val |-> val, calls |-> calls]

\* The value owner g's user function computes at a point of reals.
UserValueAt(g, X, args, kwargs) ==
    IF g = 0 THEN << ObjValueAt(X, args, kwargs) >>
    ELSE ConValueAt(inp.constraints[g].fun, X, args, kwargs)

\* The Jacobian half of the pair owner g's jac=True function returns.
UserJacAt(g, x, args) ==
    IF g = 0 THEN ObjGrad(x, args, <<>>) ELSE UserFunJac(inp.constraints[g], x, args)

\* MemoizeJac._compute_if_needed(x, *args) of owner g's wrapper: nothing is
\* computed when x is the point of the latest computation, whatever args are.
Hit(m, g, X) == m[g].x = X

ComputeIfNeeded(m, g, X, args) ==
    IF Hit(m, g, X) THEN m ELSE [m EXCEPT ![g] = [x |-> X, args |-> args]]

MemoCalls(m, g, by, X, args) ==
    IF Hit(m, g, X) THEN <<>> ELSE << Call("fun", g, by, args, <<>>) >>

\* MemoizeJac.__call__(x, *args): the cached value.
MemoValue(m, g, by, X, args) ==
    LET m2 == ComputeIfNeeded(m, g, X, args)
    IN  Outcome(m2, UserValueAt(g, m2[g].x, m2[g].args, <<>>), MemoCalls(m, g, by, X, args))

\* MemoizeJac.derivative(x, *args): the cached Jacobian.
MemoDerivative(m, g, by, x, args) ==
    LET m2 == ComputeIfNeeded(m, g, Lift(x), args)
    IN  Outcome(m2, UserJacAt(g, x, m2[g].args), MemoCalls(m, g, by, Lift(x), args))

\* A stored function callable c called as fun(x, *args, **kwargs): the user
\* function itself, or its MemoizeJac (which is never given keywords).
CallConFun(m, c, by, X, args, kwargs) ==
    IF c.tag = "memo" THEN MemoValue(m, c.g, by, X, args)
    ELSE Outcome(m, UserValueAt(c.g, X, args, kwargs), << Call("fun", c.g, by, args, kwargs) >>)

\* One call r that gave v, followed by the calls rest: the values and the user
\* calls in order, and the caches the last call left.
Then(v, r, rest) == Outcome(rest.memo, <<v>> \o rest.val, r.calls \o rest.calls)

RECURSIVE EvalAll(_, _, _, _, _)
\* The calls of c at the points after the first, whose call was r.
EvalRest(c, by, pts, args, r) == Then(r.val, r, EvalAll(r.memo, c, by, Tail(pts), args))

\* c called at each of the points in turn.
EvalAll(m, c, by, pts, args) ==
    IF pts = <<>> THEN Outcome(m, <<>>, <<>>)
    ELSE EvalRest(c, by, pts, args, CallConFun(m, c, by, Head(pts), args, <<>>))

\* The forward differences from the calls e at x and at the perturbed points.
Differences(e) == Outcome(e.memo, ApproxFprime(Head(e.val), Tail(e.val)), e.calls)

\* approx_fprime(x, c, eps, *args): c at x, then at x + dx*e_j for each j.
FiniteDifference(m, c, by, x, args) ==
    Differences(EvalAll(m, c, by, <<Lift(x)>> \o Perturbed(x), args))

\* The function the finite-difference lambda of group i differentiates: the
\* value of __init__'s variable con_fun at the time of the call.
FdTarget(p, i) == p.con_fun

\* A stored Jacobian callable of group i called as jac(x, *args).
CallConJac(m, p, i, x, args) ==
    LET j == p.constraint_jacs[i]
    IN  IF j.tag = "fd" THEN FiniteDifference(m, FdTarget(p, i), i, x, args)
        ELSE IF j.tag = "derivative" THEN MemoDerivative(m, j.g, i, x, args)
        ELSE Outcome(m, UserJac(inp.constraints[j.g], x, args),
                     << Call("jac", j.g, i, args, <<>>) >>)

\* The result of a wrapper method and the caches it leaves.
Done(m, r) == [memo |-> m, ret |-> r]

\* The method cb returning what the callable's call r gave.
Gave(cb, x, r) == Done(r.memo, Returned(cb, x, r.val, r.calls))

\* The method cb returning np.hstack of the list the loop r built; np.hstack
\* of an empty list raises ValueError.
Stacked(cb, x, r) ==
    IF r.val = <<>> THEN Done(r.memo, Threw(cb, x, "ValueError"))
    ELSE Done(r.memo, Returned(cb, x, Hstack(r.val), r.calls))

\* A function value at a solver iterate, and the single row of a gradient.
OnGrid(r) == Outcome(r.memo, Grid(r.val), r.calls)
FirstRow(r) == Outcome(r.memo, r.val[1], r.calls)

\* A method leaving with d.
Leave(d) ==
    /\ memo' = d.memo
    /\ ret' = d.ret

\* objective(x) after the count, line 172.  MemoizeJac.__call__(x, *args)
\* takes no keywords.
ObjectiveResult(p, m, x) ==
    IF p.fun = "memo" /\ p.kwargs # <<>>
    THEN Done(m, Threw("objective", x, "TypeError"))
    ELSE Gave("objective", x,
              OnGrid(CallConFun(m, [tag |-> p.fun, g |-> 0], 0, Lift(x), p.args, p.kwargs)))

\* objective(x), lines 170-172
ObjectiveCall(x) ==
    /\ nfev' = nfev + 1
    /\ Leave(ObjectiveResult(problem, memo, x))
    /\ UNCHANGED <<njev, nit>>

Objective(x) ==
    /\ pc = "solve"
    /\ nfev < MaxEvals
    /\ ObjectiveCall(x)
    /\ UNCHANGED <<pc, exc, inp, prep, problem, options, nlp, result>>

\* gradient(x) after the count, line 176.  approx_fprime(x0, fun, eps, *args)
\* and MemoizeJac.derivative(x, *args) take no keywords.
GradientResult(p, m, x) ==
    IF p.jac = "user"
    THEN Done(m, Returned("gradient", x, ObjGrad(x, p.args, p.kwargs),
                          << Call("jac", 0, 0, p.args, p.kwargs) >>))
    ELSE IF p.kwargs # <<>>
    THEN Done(m, Threw("gradient", x, "TypeError"))
    ELSE IF p.jac = "derivative"
    THEN Gave("gradient", x, MemoDerivative(m, 0, 0, x, p.args))
    ELSE Gave("gradient", x,
              FirstRow(FiniteDifference(m, [tag |-> p.fun, g |-> 0], 0, x, p.args)))

\* gradient counting an objective evaluation as well.
MutGradientCall(x) ==
    /\ njev' = njev + 1
    /\ nfev' = nfev + 1
    /\ Leave(GradientResult(problem, memo, x))
    /\ nit' = nit

\* gradient(x), lines 174-176
GradientCall(x) ==
    /\ njev' = njev + 1
    /\ Leave(GradientResult(problem, memo, x))
    /\ UNCHANGED <<nfev, nit>>

Gradient(x) ==
    /\ pc = "solve"
    /\ njev < MaxEvals
    /\ GradientCall(x)
    /\ UNCHANGED <<pc, exc, inp, prep, problem, options, nlp, result>>

\* The tuple (o, g) of line 168 once objective gave o and gradient g.
ResultPair(x, o, g) ==
    IF g.ret.exc # "none"
    THEN Done(g.memo, ThrewAfter("evaluate_fun_with_grad", x, g.ret.exc,
                                 o.ret.calls \o g.ret.calls))
    ELSE Done(g.memo, Returned("evaluate_fun_with_grad", x, <<o.ret.val[1], g.ret.val>>,
                               o.ret.calls \o g.ret.calls))

\* Line 168 after objective(x) left with o: gradient(x) unless objective raised.
AfterObjective(p, x, o) ==
    IF o.ret.exc # "none"
    THEN Done(o.memo, ThrewAfter("evaluate_fun_with_grad", x, o.ret.exc, o.ret.calls))
    ELSE ResultPair(x, o, GradientResult(p, o.memo, x))

EvaluateFunWithGradResult(p, m, x) == AfterObjective(p, x, ObjectiveResult(p, m, x))

\* The counts of the objective call that left with o and of the gradient call
\* that follows unless it raised.
Counted(o) ==
    /\ nfev' = nfev + 1
    /\ njev' = IF o.ret.exc # "none" THEN njev ELSE njev + 1

\* evaluate_fun_with_grad(x), lines 166-168
EvaluateFunWithGrad(x) ==
    /\ pc = "solve"
    /\ nfev < MaxEvals
    /\ njev < MaxEvals
    /\ Counted(ObjectiveResult(problem, memo, x))
    /\ Leave(EvaluateFunWithGradResult(problem, memo, x))
    /\ UNCHANGED <<pc, exc, inp, prep, problem, options, nlp, nit, result>>

RECURSIVE ConstraintsLoop(_, _, _, _)
\* Round i of the loop of lines 180-181 once fun(x, *args) gave r, and the
\* rounds after it.
ConstraintsRound(p, x, i, r) == Then(Grid(r.val), r, ConstraintsLoop(p, r.memo, x, i + 1))

\* The loop of lines 180-181 from its i-th round on.
ConstraintsLoop(p, m, x, i) ==
    IF i > ZipLen(p.constraint_funs, p.constraint_args) THEN Outcome(m, <<>>, <<>>)
    ELSE ConstraintsRound(p, x, i, CallConFun(m, p.constraint_funs[i], i, Lift(x),
                                              p.constraint_args[i], <<>>))

\* constraints(x), lines 178-182
ConstraintsResult(p, m, x) == Stacked("constraints", x, ConstraintsLoop(p, m, x, 1))

Constraints(x) ==
    /\ pc = "solve"
    /\ Leave(ConstraintsResult(problem, memo, x))
    /\ UNCHANGED <<pc, exc, inp, prep, problem, options, nlp, nfev, njev, nit, result>>

\* jacobianstructure(), lines 184-185
jacobianstructure(p) == p.constraint_jacobian_structure

RECURSIVE JacobianLoop(_, _, _, _)
\* Round i of the loop of lines 192-198 once jac(x, *args) gave r, and the
\* rounds after it.
JacobianRound(p, x, i, r) ==
    Then(IF p.constraint_jac_is_sparse[i] THEN r.val.data ELSE Ravel(r.val),
         r, JacobianLoop(p, r.memo, x, i + 1))

\* The loop of lines 192-198 from its i-th round on.
JacobianLoop(p, m, x, i) ==
    IF i > ZipLen(p.constraint_jacs, p.constraint_args) THEN Outcome(m, <<>>, <<>>)
    ELSE JacobianRound(p, x, i, CallConJac(m, p, i, x, p.constraint_args[i]))

\* jacobian(x), lines 187-199
JacobianResult(p, m, x) == Stacked("jacobian", x, JacobianLoop(p, m, x, 1))

Jacobian(x) ==
    /\ pc = "solve"
    /\ Leave(JacobianResult(problem, memo, x))
    /\ UNCHANGED <<pc, exc, inp, prep, problem, options, nlp, nfev, njev, nit, result>>

\* Every group given the multipliers from offset 0 on.
MutLagrs(p, lagrange) ==
    [i \in 1..Len(p.constraint_dims) |-> SubSeq(lagrange, 1, p.constraint_dims[i])]

\* The multiplier slices of line 204.
Lagrs(p, lagrange) == NpSplit(lagrange, Cumsum(ButLast(p.constraint_dims)))

Zip3Len(a, b, c) == ZipLen(SubSeq(a, 1, ZipLen(a, b)), c)

RECURSIVE AddHessians(_, _, _, _, _)
\* The loop of lines 205-207 from its i-th round on.
AddHessians(p, x, lagrs, H, i) ==
    IF i > Zip3Len(p.constraint_hessians, p.constraint_args, lagrs) THEN H
    ELSE AddHessians(p, x, lagrs,
                     MatAdd(H, ConHess(inp.constraints[i].fun, x, lagrs[i],
                                       p.constraint_args[i], <<>>)),
                     i + 1)

\* hessian(x, lagrange, obj_factor), lines 201-208.  obj_hess is called as obj_hess(x).
HessianValue(p, x, lagrange, obj_factor) ==
    LET H == MatScale(obj_factor, ObjHess(x, <<>>, <<>>))
        lagrs == Lagrs(p, lagrange)
    IN  Tril(AddHessians(p, x, lagrs, H, 1))

HessianCalls(p, lagrange) ==
    << Call("hess", 0, 0, <<>>, <<>>) >>
    \o [i \in 1..Zip3Len(p.constraint_hessians, p.constraint_args, Lagrs(p, lagrange)) |->
            Call("hess", i, i, p.constraint_args[i], <<>>)]

\* The multiplier vectors the solver passes: one multiplier per constraint row.
Multipliers(m) == { [i \in 1..m |-> c + i] : c \in 0..MaxMult }

\* The solver asks for the Hessian only when no approximation is configured.
Hessian(x, lagrange, obj_factor) ==
    /\ pc = "solve"
    /\ ~Has(nlp, Bytes("hessian_approximation"))
    /\ ret' = [Returned("hessian", x, HessianValue(problem, x, lagrange, obj_factor),
                        HessianCalls(problem, lagrange))
               EXCEPT !.lagrange = lagrange, !.obj_factor = obj_factor]
    /\ UNCHANGED <<pc, exc, inp, prep, problem, options, nlp, memo, nfev, njev, nit, result>>

\* intermediate(...), lines 210-214
Intermediate(iter_count) ==
    /\ pc = "solve"
    /\ nit' = iter_count
    /\ ret' = [NoRet EXCEPT !.cb = "intermediate", !.iter_count = iter_count]
    /\ UNCHANGED <<pc, exc, inp, prep, problem, options, nlp, memo, nfev, njev, result>>

\* minimize_ipopt, 391-404: solve returns and the counters are read.
Finish ==
    /\ pc = "solve"
    /\ pc' = "done"
    /\ result' = [nfev |-> nfev, njev |-> njev, nit |-> nit, returned |-> TRUE]
    /\ UNCHANGED <<exc, inp, prep, problem, options, nlp, memo, nfev, njev, nit, ret>>

N == Len(inp.x0)

Next ==
    \/ Prepare
    \/ Construct
    \/ TranslateOptions
    \/ Register
    \/ \E x \in Iterates(N) : Objective(x)
    \/ \E x \in Iterates(N) : Gradient(x)
    \/ \E x \in Iterates(N) : EvaluateFunWithGrad(x)
    \/ \E x \in Iterates(N) : Constraints(x)
    \/ \E x \in Iterates(N) : Jacobian(x)
    \/ \E x \in Iterates(N), lagrange \in Multipliers(Len(prep.cl)), obj_factor \in 1..2 :
            Hessian(x, lagrange, obj_factor)
    \/ \E iter_count \in 0..MaxIter : Intermediate(iter_count)
    \/ Finish

Spec == Init /\ [][Next]_vars

\* The option translation alone, over every option dict.
InitOptions == InitWith(OptionInputs)

NextOptions ==
    \/ Prepare
    \/ Construct
    \/ TranslateOptions
    \/ Register

SpecOptions == InitOptions /\ [][NextOptions]_vars


\* ============================================================== properties

Cons == inp.constraints
K == Len(inp.constraints)

\* The offset of group i in the stacked constraint vector: the dimensions
\* get_constraint_dimensions measured for the groups before it.
Offset(i) == SumSeq(SubSeq(prep.con_dims, 1, i - 1))

Slice(v, i) == SubSeq(v, Offset(i) + 1, Offset(i) + prep.con_dims[i])

\* C1: constraints(x) returns a vector of length p_1+...+p_k whose slice at
\* group i's offsets is group i's function evaluated at x with its args.
C1_StackedConstraints ==
    ret.cb = "constraints" =>
        /\ ret.exc = "none"
        /\ Len(ret.val) = SumSeq(prep.con_dims)
        /\ \A i \in 1..K : Slice(ret.val, i) = ConValue(Cons[i].fun, ret.x, Cons[i].args, <<>>)

\* The same for the problems that have at least one constraint group.
StackedConstraintsOfGroups == K >= 1 => C1_StackedConstraints

\* C2: the array jacobian(x) returns is as long as the row and column arrays
\* of jacobianstructure().
C2_JacobianLength ==
    (ret.cb = "jacobian" /\ ret.exc = "none") =>
        /\ Len(ret.val) = Len(jacobianstructure(problem)[1])
        /\ Len(ret.val) = Len(jacobianstructure(problem)[2])

\* C3: with zero constraints, constraints(x) returns an empty vector without
\* raising, and cl and cu have length 0.
C3_NoConstraints ==
    K = 0 =>
        /\ ret.cb = "constraints" => (ret.exc = "none" /\ ret.val = <<>>)
        /\ Len(prep.cl) = 0
        /\ Len(prep.cu) = 0

\* Some group's Hessian is missing while the objective's is given, or given
\* while the objective's is missing.
MismatchInput == \E i \in 1..K : Cons[i].hess # inp.hess

\* C4: a Hessian mismatch between objective and constraints raises during
\* construction, and no solver callback is ever invoked.
C4_MismatchRaises ==
    MismatchInput =>
        /\ pc \in {"call", "construct", "raised"}
        /\ pc = "raised" => (exc = "NotImplementedError" /\ problem = NoProblem)
        /\ ret = NoRet
        /\ nfev = 0 /\ njev = 0 /\ nit = 0

C4_Witness == MismatchInput /\ pc = "raised" /\ exc = "NotImplementedError"

RECURSIVE LagrangianHessian(_, _, _, _)
\* obj_factor * objective Hessian plus the Hessians of groups i..K, each with
\* the multipliers at the offsets of its own rows.
LagrangianHessian(x, lagrange, obj_factor, i) ==
    IF i > K THEN MatScale(obj_factor, ObjHess(x, <<>>, <<>>))
    ELSE MatAdd(LagrangianHessian(x, lagrange, obj_factor, i + 1),
                ConHess(Cons[i].fun, x, Slice(lagrange, i), Cons[i].args, <<>>))

\* C5: hessian(x, lagrange, obj_factor) is the lower triangle, row by row, of
\* obj_factor * objective Hessian + sum over groups of the group Hessian at
\* the multiplier slice of the group's own offsets.
C5_Hessian ==
    ret.cb = "hessian" =>
        LET n == Len(ret.x)
            H == LagrangianHessian(ret.x, ret.lagrange, ret.obj_factor, 1)
        IN  /\ ret.exc = "none"
            /\ Len(ret.val) = (n * (n + 1)) \div 2
            /\ \A r \in 1..n : \A c \in 1..r :
                    ret.val[((r - 1) * r) \div 2 + c] = H[r][c]

C5_Witness ==
    /\ ret.cb = "hessian"
    /\ K = 2
    /\ Cons[1].fun = "pair"
    /\ Len(ret.x) = 2


\* Group i's own Jacobian at x as a dense array: what its evaluator returns,
\* or the forward differences of its own function when it declares none.
OwnJacobian(i, x) ==
    LET F(X) == ConValueAt(Cons[i].fun, X, Cons[i].args, <<>>)
    IN  IF Cons[i].jac = "none"
        THEN ApproxFprime(F(Lift(x)), [q \in 1..Len(x) |-> F(Perturbed(x)[q])])
        ELSE ConJacDense(Cons[i].fun, x, Cons[i].args, <<>>)

\* The stacked constraint Jacobian: the groups' Jacobians one above the other.
StackedJacobian(x) == Hstack([i \in 1..K |-> OwnJacobian(i, x)])

\* The coordinates group i contributes to the structure, rows shifted by its offset.
OwnCoordinates(i, n) ==
    IF Cons[i].jac = "sparse"
    THEN LET pat == SparsePattern(Cons[i].fun, n)
         IN  [k \in 1..Len(pat) |-> <<pat[k][1] + Offset(i), pat[k][2]>>]
    ELSE [k \in 1..(prep.con_dims[i] * n) |-> <<Offset(i) + (k - 1) \div n, (k - 1) % n>>]

\* C6: the structure lists each group's coordinates in declaration order
\* (dense: row-major over its rows and all columns; sparse: native order,
\* shifted), and the value at k is the stacked Jacobian's entry at (rows[k], cols[k]).
C6_JacobianOrder ==
    (ret.cb = "jacobian" /\ ret.exc = "none") =>
        LET rows == jacobianstructure(problem)[1]
            cols == jacobianstructure(problem)[2]
            coords == Hstack([i \in 1..K |-> OwnCoordinates(i, Len(ret.x))])
            J == StackedJacobian(ret.x)
        IN  /\ [k \in 1..Len(rows) |-> <<rows[k], cols[k]>>] = coords
            /\ \A k \in 1..Len(ret.val) :
                    /\ k <= Len(rows)
                    /\ ret.val[k] = J[rows[k] + 1][cols[k] + 1]

\* The finite-difference lambdas differentiate their own group's function.
FdBound == \A i \in 1..K : Cons[i].jac = "none" => FdTarget(problem, i).g = i

\* Lengths and order agree whenever every finite-difference group is the last group.
JacobianOrderWhenBound == FdBound => (C2_JacobianLength /\ C6_JacobianOrder)

\* The caller's values under a name, given as a str or as a bytes key.
Given(name) == {Str(name), Bytes(name)} \cap Keys(inp.options) # {}
CallerValues(name) ==
    { Get(inp.options, k) : k \in {Str(name), Bytes(name)} \cap Keys(inp.options) }

Aliases == { <<"disp", "print_level">>, <<"maxiter", "max_iter">> }

Translated(o) ==
    \A a \in Aliases :
        LET alias == a[1]
            native == a[2]
        IN  /\ Given(native) => Get(o, Bytes(native)) \in CallerValues(native)
            /\ (Given(native) /\ Given(alias)) => Has(o, Bytes(alias))
            /\ (Given(alias) /\ ~Given(native)) =>
                    /\ Get(o, Bytes(native)) \in CallerValues(alias)
                    /\ ~Has(o, Bytes(alias))

\* C7: an alias is renamed to the native name only when the native name is not
\* given; when both are given the native name keeps the caller's native value.
C7_NativeWins ==
    /\ pc = "register" => Translated(options)
    /\ pc = "solve" => Translated(nlp)

C7_Witness ==
    /\ pc = "solve"
    /\ Has(inp.options, Str("disp"))
    /\ Has(inp.options, Str("print_level"))
    /\ Get(inp.options, Str("disp")) # Get(inp.options, Str("print_level"))
    /\ Get(nlp, Bytes("print_level")) = Get(inp.options, Str("print_level"))

\* The steps in which objective, gradient and intermediate run.  objective and
\* gradient run when the solver calls them and when evaluate_fun_with_grad does.
EvaluateFunWithGradStep == \E x \in Iterates(N) : EvaluateFunWithGrad(x)
ObjectiveStep == (\E x \in Iterates(N) : Objective(x)) \/ EvaluateFunWithGradStep
GradientStep == (\E x \in Iterates(N) : Gradient(x)) \/ EvaluateFunWithGradStep
IntermediateStep == \E iter_count \in 0..MaxIter : Intermediate(iter_count)

OwnCallbackOnly ==
    /\ nfev' # nfev => ObjectiveStep
    /\ njev' # njev => GradientStep
    /\ nit' # nit => IntermediateStep

\* C8 as stated: no counter ever decreases, and each changes only inside its
\* own callback.
C8_CountersNeverDecrease ==
    [][nfev' >= nfev /\ njev' >= njev /\ nit' >= nit /\ OwnCallbackOnly]_vars

\* C8 amended: nfev and njev never decrease, nit is the iteration count the
\* solver last passed to intermediate, and each changes only inside its own
\* callback.
C8_Counters ==
    [][/\ nfev' >= nfev
       /\ njev' >= njev
       /\ IntermediateStep => nit' = ret'.iter_count
       /\ OwnCallbackOnly]_vars

C8_Witness ==
    /\ nfev >= 1
    /\ njev >= 1
    /\ ret.cb = "intermediate"
    /\ nit >= 1

\* C9: the finite-difference Jacobian of a group without a Jacobian evaluator
\* differentiates that group's own function.
C9_OwnFunction ==
    (ret.cb = "jacobian" /\ ret.exc = "none") =>
        \A i \in 1..K : Cons[i].jac = "none" =>
            /\ \E c \in 1..Len(ret.calls) : ret.calls[c].by = i
            /\ \A c \in 1..Len(ret.calls) :
                    ret.calls[c].by = i => ret.calls[c] = Call("fun", i, i, Cons[i].args, <<>>)

OwnerArgs(owner) == IF owner = 0 THEN inp.args ELSE Cons[owner].args
OwnerKwargs(owner) == IF owner = 0 THEN inp.kwargs ELSE Cons[owner].kwargs

\* C10: every user function a callback calls receives its owner's args and kwargs.
C10_ArgsThreaded ==
    \A c \in 1..Len(ret.calls) :
        /\ ret.calls[c].args = OwnerArgs(ret.calls[c].owner)
        /\ ret.calls[c].kwargs = OwnerKwargs(ret.calls[c].owner)

====
